---- MODULE Spec2Model ----
(***************************************************************************)
(* Model of finml.backtest.engine.backtest_rank_ls: the daily              *)
(* cross-sectional long/short backtest.  The two input tables are          *)
(* sequences of rows in input order; the function body is a pipeline of    *)
(* steps (de-duplicate, returns, join, per-date selection, costs, daily    *)
(* aggregation, metrics), one action per step.                             *)
(*                                                                         *)
(* Every number of the pipeline is an IEEE 754 binary64 value, and every   *)
(* arithmetic step of the code is the correctly rounded float64 operation, *)
(* applied in the order the code and its libraries apply them.             *)
(***************************************************************************)
EXTENDS Integers, Sequences, FiniteSets

VARIABLES predsIn, marketIn, cfg, fill_method, nan_guard, pc, preds, m, df, days, daily,
          metrics

vars ==
    <<predsIn, marketIn, cfg, fill_method, nan_guard, pc, preds, m, df, days, daily, metrics>>

(***************************************************************************)
(* Bounds of the explored inputs.                                          *)
(***************************************************************************)
NFree == 3
NDates == 4
MaxDays == 3

(* The hard-coded minimum cross-section size, `if n < 20: continue`. *)
NMin == 20

(* Size of the fixed block of symbols: two short of the minimum, so that the *)
(* free symbols decide whether a date is thin.                              *)
NFill == NMin - 2

Max(a, b) == IF a >= b THEN a ELSE b

(***************************************************************************)
(* Unsigned integers of any size: little-endian sequences of 14-bit limbs. *)
(***************************************************************************)
LimbBits == 14
Base == 16384

Get(a, i) == IF i >= 1 /\ i <= Len(a) THEN a[i] ELSE 0

(* the same sequence as a tuple, its elements computed once *)
AsTuple(a) == a \o <<>>

RECURSIVE TopFrom(_, _)
TopFrom(a, i) == IF i = 0 THEN 0 ELSE IF a[i] # 0 THEN i ELSE TopFrom(a, i - 1)

(* the index of the highest nonzero limb, 0 for zero *)
TopLimb(a) == TopFrom(a, Len(a))

(* the number of bits of a: those of the limbs below the highest and those *)
(* of the highest                                                          *)
BitLen(a) ==
    LET t == TopLimb(a)
    IN  IF t = 0 THEN 0
        ELSE LimbBits * (t - 1) + Cardinality({k \in 0..(LimbBits - 1) : 2 ^ k <= a[t]})

LIsZero(a) == \A i \in 1..Len(a) : a[i] = 0

(* a * 2^sh *)
ShiftLeft(a, sh) ==
    LET w == sh \div LimbBits
        lo == 2 ^ (LimbBits - (sh % LimbBits))
        up == 2 ^ (sh % LimbBits)
    IN  AsTuple([i \in 1..(Len(a) + w + 1) |->
                    (Get(a, i - w) % lo) * up + (Get(a, i - w - 1) \div lo)])

(* a \div 2^sh *)
ShiftRight(a, sh) ==
    LET w == sh \div LimbBits
        lo == 2 ^ (sh % LimbBits)
        up == 2 ^ (LimbBits - (sh % LimbBits))
    IN  AsTuple([i \in 1..(Len(a) - w) |->
                    (Get(a, i + w) \div lo) + (Get(a, i + w + 1) % lo) * up])

(* bit j of a, the lowest being bit 0 *)
BitAt(a, j) == (Get(a, (j \div LimbBits) + 1) \div (2 ^ (j % LimbBits))) % 2

(* the bits of a below bit j are all 0 *)
LowZero(a, j) ==
    /\ \A i \in 1..(j \div LimbBits) : Get(a, i) = 0
    /\ Get(a, (j \div LimbBits) + 1) % (2 ^ (j % LimbBits)) = 0

RECURSIVE CmpFrom(_, _, _)
CmpFrom(a, b, i) ==
    IF i = 0 THEN 0
    ELSE IF Get(a, i) < Get(b, i) THEN -1
    ELSE IF Get(a, i) > Get(b, i) THEN 1
    ELSE CmpFrom(a, b, i - 1)

(* -1, 0, 1 as a < b, a = b, a > b *)
LCmp(a, b) == CmpFrom(a, b, Max(Len(a), Len(b)))

RECURSIVE AddFrom(_, _, _, _)
AddFrom(a, b, i, c) ==
    IF i > Len(a) /\ i > Len(b) THEN (IF c = 0 THEN <<>> ELSE <<c>>)
    ELSE <<(Get(a, i) + Get(b, i) + c) % Base>>
             \o AddFrom(a, b, i + 1, (Get(a, i) + Get(b, i) + c) \div Base)

LAdd(a, b) == AddFrom(a, b, 1, 0)

(* a - b for a >= b *)
RECURSIVE SubFrom(_, _, _, _)
SubFrom(a, b, i, c) ==
    IF i > Len(a) THEN <<>>
    ELSE IF a[i] - Get(b, i) - c < 0
         THEN <<a[i] - Get(b, i) - c + Base>> \o SubFrom(a, b, i + 1, 1)
         ELSE <<a[i] - Get(b, i) - c>> \o SubFrom(a, b, i + 1, 0)

LSub(a, b) == SubFrom(a, b, 1, 0)

RECURSIVE Carry(_, _, _)
Carry(c, i, k) ==
    IF i > Len(c) THEN <<k>>
    ELSE <<(c[i] + k) % Base>> \o Carry(c, i + 1, (c[i] + k) \div Base)

(* a * b for a and b of 4 limbs *)
LMul(a, b) ==
    Carry(<<a[1] * b[1],
            a[1] * b[2] + a[2] * b[1],
            a[1] * b[3] + a[2] * b[2] + a[3] * b[1],
            a[1] * b[4] + a[2] * b[3] + a[3] * b[2] + a[4] * b[1],
            a[2] * b[4] + a[3] * b[3] + a[4] * b[2],
            a[3] * b[4] + a[4] * b[3],
            a[4] * b[4]>>, 1, 0)

(* quotient and remainder of a by a divisor d of one limb, from limb i down *)
RECURSIVE ShortDivFrom(_, _, _, _)
ShortDivFrom(a, d, i, r) ==
    IF i = 0 THEN [q |-> <<>>, r |-> r]
    ELSE LET rest == ShortDivFrom(a, d, i - 1, (r * Base + a[i]) % d)
         IN  [q |-> Append(rest.q, (r * Base + a[i]) \div d), r |-> rest.r]

(* the largest digit g with g * d <= r, and r - g * d, for r < Base * d; *)
(* t[k] is d * 2^(k-1)                                                  *)
RECURSIVE DigitFrom(_, _, _, _)
DigitFrom(r, t, k, g) ==
    IF k = 0 THEN [g |-> g, r |-> r]
    ELSE IF LCmp(r, t[k]) < 0 THEN DigitFrom(r, t, k - 1, g)
    ELSE DigitFrom(LSub(r, t[k]), t, k - 1, g + 2 ^ (k - 1))

RECURSIVE LongDivFrom(_, _, _, _)
LongDivFrom(a, t, i, r) ==
    IF i = 0 THEN [q |-> <<>>, r |-> r]
    ELSE LET dg == DigitFrom(<<a[i]>> \o r, t, LimbBits, 0)
             rest == LongDivFrom(a, t, i - 1, dg.r)
         IN  [q |-> Append(rest.q, dg.g), r |-> rest.r]

(* the limbs of a above limb i: fewer limbs than the divisor has, so less *)
(* than the divisor                                                       *)
LongDiv(a, d, i) ==
    LongDivFrom(a, AsTuple([k \in 1..LimbBits |-> ShiftLeft(d, k - 1)]), i,
                AsTuple([j \in 1..(TopLimb(a) - i) |-> a[i + j]]))

(* quotient q and remainder r (as limbs) of a by d > 0 *)
LDivMod(a, d) ==
    IF TopLimb(d) <= 1
    THEN LET s == ShortDivFrom(a, d[1], TopLimb(a), 0) IN [q |-> s.q, r |-> <<s.r>>]
    ELSE LongDiv(a, d, Max(0, TopLimb(a) - TopLimb(d) + 1))

(* the number of 0 bits below the lowest 1 bit of a # 0 *)
TrailingZeros(a) ==
    LET l == CHOOSE i \in 1..Len(a) : a[i] # 0 /\ \A j \in 1..(i - 1) : a[j] = 0
    IN  LimbBits * (l - 1) + Cardinality({k \in 1..(LimbBits - 1) : a[l] % (2 ^ k) = 0})

LToInt(a) == Get(a, 1) + Base * Get(a, 2) + Base * Base * Get(a, 3)

LFromInt(n) == <<n % Base, (n \div Base) % Base, n \div (Base * Base)>>

(***************************************************************************)
(* IEEE 754 binary64.  A finite number is s * m * 2^e with s the sign, the *)
(* mantissa m of four limbs and 2^52 <= m < 2^53 and -1074 <= e <= 971, or *)
(* with m < 2^52 and e = -1074 (subnormal), or with m = 0 and e = 0 (the   *)
(* two zeros).  Infinities and NaN have no mantissa.  Every operation      *)
(* rounds its exact result to the nearest, ties to the even mantissa.      *)
(***************************************************************************)
MinExp == -1074
MaxExp == 971

F64Zero(s) == [s |-> s, m |-> <<0, 0, 0, 0>>, e |-> 0]
F64Inf(s) == [s |-> s, m |-> <<>>, e |-> 1]
NaN == [s |-> 1, m |-> <<>>, e |-> 0]

IsNaN(x) == x.m = <<>> /\ x.e = 0
IsInf(x) == x.m = <<>> /\ x.e = 1
IsZero(x) == x.m = <<0, 0, 0, 0>>

(* the double of sign s and value q * 2^e, for q <= 2^53 already rounded *)
Pack(s, q, e) ==
    IF Get(q, 4) >= 2048
    THEN (IF e + 1 > MaxExp THEN F64Inf(s) ELSE [s |-> s, m |-> <<0, 0, 0, 1024>>, e |-> e + 1])
    ELSE IF LIsZero(q) THEN F64Zero(s)
    ELSE IF e > MaxExp THEN F64Inf(s)
    ELSE [s |-> s, m |-> [i \in 1..4 |-> Get(q, i)], e |-> e]

RoundsUp(q, half, rest) == half /\ (rest \/ Get(q, 1) % 2 = 1)

(* n * 2^e (and a little more, with sticky) at the exponent e + sh *)
RoundAt(s, n, sh, e, sticky) ==
    IF sh <= 0 THEN Pack(s, ShiftLeft(n, 0 - sh), e + sh)
    ELSE LET q == ShiftRight(n, sh)
         IN  IF RoundsUp(q, BitAt(n, sh - 1) = 1, sticky \/ ~LowZero(n, sh - 1))
             THEN Pack(s, LAdd(q, <<1>>), e + sh)
             ELSE Pack(s, q, e + sh)

(* the double nearest to s * n * 2^e for n # 0; with sticky, to a number *)
(* between that and s * (n + 1) * 2^e, n having 55 bits or more          *)
Round(s, n, e, sticky) ==
    RoundAt(s, n, Max(e + BitLen(n) - 53, MinExp) - e, e, sticky)

FromInt(i) == IF i = 0 THEN F64Zero(1) ELSE Round(IF i < 0 THEN -1 ELSE 1, LFromInt(IF i < 0 THEN 0 - i ELSE i), 0, FALSE)

FNeg(x) == IF IsNaN(x) THEN x ELSE [x EXCEPT !.s = 0 - x.s]

FAbs(x) == IF IsNaN(x) THEN x ELSE [x EXCEPT !.s = 1]

FMul(x, y) ==
    IF IsNaN(x) \/ IsNaN(y) THEN NaN
    ELSE IF IsInf(x) \/ IsInf(y)
         THEN (IF IsZero(x) \/ IsZero(y) THEN NaN ELSE F64Inf(x.s * y.s))
    ELSE IF IsZero(x) \/ IsZero(y) THEN F64Zero(x.s * y.s)
    ELSE Round(x.s * y.s, LMul(x.m, y.m), x.e + y.e, FALSE)

(* the sum of sa * a * 2^e and sb * b * 2^e *)
AddMagnitudes(sa, a, sb, b, e) ==
    IF sa = sb THEN Round(sa, LAdd(a, b), e, FALSE)
    ELSE IF LCmp(a, b) = 0 THEN F64Zero(1)
    ELSE IF LCmp(a, b) > 0 THEN Round(sa, LSub(a, b), e, FALSE)
    ELSE Round(sb, LSub(b, a), e, FALSE)

(* x + y for finite nonzero x and y with x.e >= y.e: y is less than a    *)
(* sixteenth of the last place of x when the exponents differ by over 56 *)
AddAligned(x, y) ==
    IF x.e - y.e > 56 THEN x
    ELSE AddMagnitudes(x.s, ShiftLeft(x.m, x.e - y.e), y.s, y.m, y.e)

FAdd(x, y) ==
    IF IsNaN(x) \/ IsNaN(y) THEN NaN
    ELSE IF IsInf(x) THEN (IF IsInf(y) /\ y.s # x.s THEN NaN ELSE x)
    ELSE IF IsInf(y) THEN y
    ELSE IF IsZero(x) THEN (IF IsZero(y) THEN F64Zero(IF x.s = y.s THEN x.s ELSE 1) ELSE y)
    ELSE IF IsZero(y) THEN x
    ELSE IF x.e >= y.e THEN AddAligned(x, y)
    ELSE AddAligned(y, x)

FSub(x, y) == FAdd(x, FNeg(y))

(* the quotient of a * 2^ea by the odd d * 2^ed, a shifted to give 56 or *)
(* 57 quotient bits                                                      *)
DivShifted(s, dm, e) == Round(s, dm.q, e, ~LIsZero(dm.r))

DivOdd(s, a, ea, d, ed, k) == DivShifted(s, LDivMod(ShiftLeft(a, k), d), ea - ed - k)

DivStripped(s, a, ea, b, eb, tz) ==
    DivOdd(s, a, ea, ShiftRight(b, tz), eb + tz, 56 + (BitLen(b) - tz) - BitLen(a))

FDiv(x, y) ==
    IF IsNaN(x) \/ IsNaN(y) THEN NaN
    ELSE IF IsInf(x) THEN (IF IsInf(y) THEN NaN ELSE F64Inf(x.s * y.s))
    ELSE IF IsInf(y) THEN F64Zero(x.s * y.s)
    ELSE IF IsZero(y) THEN (IF IsZero(x) THEN NaN ELSE F64Inf(x.s * y.s))
    ELSE IF IsZero(x) THEN F64Zero(x.s * y.s)
    ELSE IF x.m = y.m THEN Round(x.s * y.s, <<1>>, x.e - y.e, FALSE)
    ELSE DivStripped(x.s * y.s, x.m, x.e, y.m, y.e, TrailingZeros(y.m))

(* Comparisons: false when either side is NaN; the two zeros are equal. *)
MagLess(x, y) ==
    IF IsInf(y) THEN ~IsInf(x)
    ELSE IF IsInf(x) THEN FALSE
    ELSE x.e < y.e \/ (x.e = y.e /\ LCmp(x.m, y.m) < 0)

SignOf(x) == IF IsZero(x) THEN 0 ELSE x.s

FLess(x, y) ==
    /\ ~IsNaN(x)
    /\ ~IsNaN(y)
    /\ IF SignOf(x) # SignOf(y) THEN SignOf(x) < SignOf(y)
       ELSE IF SignOf(x) = 0 THEN FALSE
       ELSE IF SignOf(x) > 0 THEN MagLess(x, y)
       ELSE MagLess(y, x)

FEq(x, y) == ~IsNaN(x) /\ ~IsNaN(y) /\ ((IsZero(x) /\ IsZero(y)) \/ x = y)

(* int(np.floor(x)) for a finite x of magnitude below 2^31 *)
FFloor(x) ==
    IF IsZero(x) THEN 0
    ELSE IF x.e >= 0 THEN x.s * LToInt(ShiftLeft(x.m, x.e))
    ELSE IF x.s > 0 THEN LToInt(ShiftRight(x.m, 0 - x.e))
    ELSE IF LowZero(x.m, 0 - x.e) THEN 0 - LToInt(ShiftRight(x.m, 0 - x.e))
    ELSE 0 - LToInt(ShiftRight(x.m, 0 - x.e)) - 1

(* r with bit j set, bit j of r being 0 *)
WithBit(r, j) == [r EXCEPT ![(j \div LimbBits) + 1] = @ + 2 ^ (j % LimbBits)]

(* the bits j down to stop of the integer square root of n, r holding the *)
(* bits above j                                                           *)
RECURSIVE RootBits(_, _, _, _)
RootBits(n, r, j, stop) ==
    IF j < stop THEN r
    ELSE IF LCmp(LMul(WithBit(r, j), WithBit(r, j)), n) <= 0
         THEN RootBits(n, WithBit(r, j), j - 1, stop)
         ELSE RootBits(n, r, j - 1, stop)

(* the largest r with r * r <= n, for n < 2^112 *)
Root(n) ==
    RootBits(n, RootBits(n, RootBits(n, RootBits(n, <<0, 0, 0, 0>>, 55, 42), 41, 28), 27, 14),
             13, 0)

SqrtRounded(n, r, e) == Round(1, r, e, LCmp(LMul(r, r), n) # 0)

SqrtOf(n, e) == SqrtRounded(n, Root(n), e)

(* the root of m * 2^e = (m * 2^k) * 2^(e - k), e - k even and m * 2^k of *)
(* 109 or 110 bits, so that the integer root has 55                       *)
SqrtScaled(mant, e, k) == SqrtOf(ShiftLeft(mant, k), (e - k) \div 2)

(* np.sqrt: correctly rounded; NaN for a negative number *)
Sqrt(x) ==
    IF IsNaN(x) \/ IsZero(x) THEN x
    ELSE IF x.s < 0 THEN NaN
    ELSE IF IsInf(x) THEN x
    ELSE SqrtScaled(x.m, x.e,
                    110 - BitLen(x.m) - ((x.e - (110 - BitLen(x.m))) % 2))

(* The double a decimal literal n / d denotes. *)
D(n, d) == FDiv(FromInt(n), FromInt(d))

Zero == F64Zero(1)
One == FromInt(1)
MinusOne == FromInt(-1)
(***************************************************************************)
(* Sequence helpers.                                                       *)
(***************************************************************************)
RECURSIVE SetToSortedSeq(_)
SetToSortedSeq(S) ==
    IF S = {} THEN <<>>
    ELSE LET x == CHOOSE y \in S : \A z \in S : y <= z
         IN  <<x>> \o SetToSortedSeq(S \ {x})

(* The rows of t at the positions in I, in ascending position order. *)
Take(t, I) == LET p == SetToSortedSeq(I) IN [i \in 1..Len(p) |-> t[p[i]]]

RECURSIVE Concat(_)
Concat(ss) == IF ss = <<>> THEN <<>> ELSE Head(ss) \o Concat(Tail(ss))

(***************************************************************************)
(* Inputs.  Symbols 1..NFree are "free" symbols whose prediction rows vary *)
(* from run to run; the next nfill symbols are a fixed block present on    *)
(* every date.  Date 1 is every symbol's first market date.                *)
(***************************************************************************)
FreeSyms == 1..NFree

(* The doubles of the decimal literals n / 10 and n / 100 of the inputs. *)
Tenths == [n \in -10..(20 + NFill) |-> D(n, 10)]
Hundredths == [n \in -200..100 |-> D(n, 100)]

QSet == {Hundredths[10], Hundredths[34], Hundredths[100]}

(* The (symbol, date) pairs without a prediction row: none, one, or two that *)
(* share the symbol or the date.                                            *)
FreePairs == FreeSyms \X (2..NDates)
MissingSets ==
    {{}} \cup UNION {{{p, q} : q \in {x \in FreePairs : x[1] = p[1] \/ x[2] = p[2]}} :
                        p \in FreePairs}

OwnScore(s) ==
    CASE s = 1 -> Tenths[9]
      [] s = 2 -> Tenths[1]
      [] OTHER -> Tenths[0 - 2 - s]

FillScore(j, d, nfill) ==
    IF d % 2 = 0 THEN Tenths[10 + j] ELSE Tenths[10 + nfill + 1 - j]

(* With tie, the first two free symbols score what the best symbol of the   *)
(* block scores: three equal scores at the top of the date.                 *)
Score(s, d, nfill, tie) ==
    IF s > NFree THEN FillScore(s - NFree, d, nfill)
    ELSE IF tie /\ s <= 2 THEN Tenths[10 + nfill]
    ELSE OwnScore(s)

Closes == [n \in 0..4 |-> FromInt(n)]

Close(s, d) == IF (s + d) % 3 = 0 THEN Closes[1] ELSE Closes[2]

NoDup == [tbl |-> "none", symbol |-> 0, ts |-> 0, front |-> FALSE]
DupSet ==
    [tbl : {"preds", "market"}, symbol : FreeSyms, ts : {2}, front : BOOLEAN]

(* Date-major grid of (date, symbol) pairs: the input tables are not sorted *)
(* by symbol.                                                               *)
Grid(nfill) ==
    LET n == NFree + nfill
    IN  [i \in 1..(NDates * n) |-> <<((i - 1) \div n) + 1, ((i - 1) % n) + 1>>]

WithDup(base, extra, front) == IF front THEN <<extra>> \o base ELSE base \o <<extra>>

(* Cells of the input tables off the regular pattern: a close of 0.0 (on a  *)
(* symbol that holds no position at q = 0.1, on the lowest-scored symbol on *)
(* its first market date and on its second, and on that symbol together     *)
(* with the best-scored of the date), a NaN                                 *)
(* close, a NaN score, and, for "thirds", a market that closes at 3.0       *)
(* everywhere except on the cells, where the lowest-scored symbol closes at *)
(* 4.0 and the next at 2.0 from date 3 on: returns of +1/3 and -1/3 that    *)
(* float64 does not hold exactly.  Symbol NFree has the lowest score; the   *)
(* lowest but one is that of symbol 2 among three free symbols and of      *)
(* symbol NFree - 1 among more.                                             *)

NoQuirk == [kind |-> "none", cells |-> {}]
QuirkSet ==
    {[kind |-> "zero_close", cells |-> {<<1, 2>>}],
     [kind |-> "zero_close", cells |-> {<<NFree, 1>>}],
     [kind |-> "zero_close", cells |-> {<<NFree, 2>>}],
     [kind |-> "zero_close", cells |-> {<<NFree, 2>>, <<NFree + NFill, 2>>}],
     [kind |-> "nan_close", cells |-> {<<NFree, 2>>}],
     [kind |-> "nan_pred", cells |-> {<<2, 3>>}],
     [kind |-> "thirds", cells |-> {IF NFree = 3 THEN 2 ELSE NFree - 1, NFree} \X (3..NDates)]}

QuirkClose(s, d, quirk) ==
    IF quirk.kind = "thirds"
    THEN (IF <<s, d>> \notin quirk.cells THEN Closes[3]
          ELSE IF s = NFree THEN Closes[4] ELSE Closes[2])
    ELSE IF <<s, d>> \notin quirk.cells THEN Close(s, d)
    ELSE IF quirk.kind = "zero_close" THEN Zero
    ELSE IF quirk.kind = "nan_close" THEN NaN
    ELSE Close(s, d)

QuirkScore(s, d, nfill, tie, quirk) ==
    IF quirk.kind = "nan_pred" /\ <<s, d>> \in quirk.cells THEN NaN
    ELSE Score(s, d, nfill, tie)

MakePreds(nfill, missing, tie, dup, quirk) ==
    LET g == Grid(nfill)
        Present(x) == <<x[2], x[1]>> \notin missing
        kept == SelectSeq(g, Present)
        base == [i \in 1..Len(kept) |->
                    [symbol |-> kept[i][2], ts |-> kept[i][1],
                     pred |-> QuirkScore(kept[i][2], kept[i][1], nfill, tie, quirk)]]
    IN  IF dup.tbl = "preds"
        THEN WithDup(base, [symbol |-> dup.symbol, ts |-> dup.ts, pred |-> Tenths[20 + NFill]],
                     dup.front)
        ELSE base

MakeMarket(nfill, dup, quirk) ==
    LET g == Grid(nfill)
        base == [i \in 1..Len(g) |->
                    [symbol |-> g[i][2], ts |-> g[i][1],
                     close |-> QuirkClose(g[i][2], g[i][1], quirk)]]
    IN  IF dup.tbl = "market"
        THEN WithDup(base, [symbol |-> dup.symbol, ts |-> dup.ts, close |-> Closes[4]],
                     dup.front)
        ELSE base

(* A table that lacks one of its columns. *)
NoDrop == [tbl |-> "none", col |-> "none"]
DropSet ==
    [tbl : {"preds"}, col : {"symbol", "ts", "pred"}] \cup
    [tbl : {"market"}, col : {"symbol", "ts", "close"}]

WithoutColumn(t, c) ==
    [i \in 1..Len(t) |-> [f \in (DOMAIN t[i]) \ {c} |-> t[i][f]]]

(* The columns of a table, read off its rows (the explored tables that lack *)
(* a column are not empty).                                                 *)
Columns(t) == IF t = <<>> THEN {} ELSE DOMAIN t[1]

(* Variant: the date column looked up under the name "date". *)
SortKeysDate == {"symbol", "date"}

(* The columns lines 22-23 sort and de-duplicate by; a frame without one of *)
(* them raises KeyError.                                                    *)
SortKeys == {"symbol", "ts"}

HasKeys(t) == t = <<>> \/ SortKeys \subseteq Columns(t)
HasColumn(t, c) == t = <<>> \/ c \in Columns(t)

(***************************************************************************)
(* Lines 22-23: sort_values(["symbol","ts"]) is a stable lexsort, and      *)
(* drop_duplicates(["symbol","ts"]) keeps the first row of each key.       *)
(***************************************************************************)
SameKey(a, b) == a.symbol = b.symbol /\ a.ts = b.ts

SortByTs(t) ==
    LET ds == SetToSortedSeq({t[i].ts : i \in 1..Len(t)})
        Part(i) == LET Is(r) == r.ts = ds[i] IN SelectSeq(t, Is)
    IN  Concat([i \in 1..Len(ds) |-> Part(i)])

SortBySymbolTs(t) ==
    LET ss == SetToSortedSeq({t[i].symbol : i \in 1..Len(t)})
        Part(i) == LET Is(r) == r.symbol = ss[i] IN SortByTs(SelectSeq(t, Is))
    IN  Concat([i \in 1..Len(ss) |-> Part(i)])

DropDuplicates(t) ==
    Take(t, {i \in 1..Len(t) : \A j \in 1..(i - 1) : ~SameKey(t[j], t[i])})

(***************************************************************************)
(* Lines 25-26: per-symbol pct_change(1) of close, in frame order.         *)
(***************************************************************************)
PrevOfSymbol(t, i) ==
    LET before == {j \in 1..(i - 1) : t[j].symbol = t[i].symbol}
    IN  IF before = {} THEN 0 ELSE CHOOSE j \in before : \A k \in before : k <= j

NextOfSymbol(t, i) ==
    LET after == {j \in (i + 1)..Len(t) : t[j].symbol = t[i].symbol}
    IN  IF after = {} THEN 0 ELSE CHOOSE j \in after : \A k \in after : j <= k

(* The close a row enters pct_change with.  pandas 1.x and 2.x call it     *)
(* with fill_method "ffill" by default: a NaN close is first replaced by   *)
(* the symbol's latest close that is not NaN (it stays NaN when there is   *)
(* none).  pandas 3 has no filling.                                        *)
RECURSIVE Filled(_, _, _)
Filled(t, i, fill) ==
    IF fill = "ffill" /\ IsNaN(t[i].close) /\ PrevOfSymbol(t, i) # 0
    THEN Filled(t, PrevOfSymbol(t, i), fill)
    ELSE t[i].close

(* filled / filled.shift(1) - 1: a division and a subtraction, each rounded *)
Change(x, y) == FSub(FDiv(x, y), One)

(* Change tabulated once for the closes of the explored markets. *)
CloseValues == {Closes[n] : n \in DOMAIN Closes} \cup {NaN}

ChangeTable == [x \in CloseValues |-> [y \in CloseValues |-> Change(x, y)]]

ChangeOf(x, y) ==
    IF x \in CloseValues /\ y \in CloseValues THEN ChangeTable[x][y] ELSE Change(x, y)

(* Variant: the return of the bar that follows the row, pct_change(-1)-like. *)
PctChangeForward(t, fill) ==
    [i \in 1..Len(t) |->
        LET p == NextOfSymbol(t, i)
        IN  [symbol |-> t[i].symbol, ts |-> t[i].ts, close |-> t[i].close,
             ret_1d |-> IF p = 0 THEN NaN
                        ELSE ChangeOf(Filled(t, p, fill), Filled(t, i, fill))]]

PctChange(t, fill) ==
    [i \in 1..Len(t) |->
        LET p == PrevOfSymbol(t, i)
        IN  [symbol |-> t[i].symbol, ts |-> t[i].ts, close |-> t[i].close,
             ret_1d |-> IF p = 0 THEN NaN
                        ELSE ChangeOf(Filled(t, i, fill), Filled(t, p, fill))]]

(***************************************************************************)
(* Lines 28-32: left merge on (symbol, ts) keeps the order of preds and    *)
(* labels the rows 0, 1, ...; dropna keeps the labels; pos starts at 0.    *)
(***************************************************************************)
RetOf(mm, r) ==
    LET hit == {j \in 1..Len(mm) : SameKey(mm[j], r)}
    IN  IF hit = {} THEN NaN ELSE mm[CHOOSE j \in hit : TRUE].ret_1d

Merge(p, mm) ==
    [i \in 1..Len(p) |->
        [idx |-> i - 1, symbol |-> p[i].symbol, ts |-> p[i].ts, pred |-> p[i].pred,
         ret_1d |-> RetOf(mm, p[i])]]

(* dropna removes NaN; +inf and -inf stay *)
DropNa(t) == LET Ok(r) == ~IsNaN(r.pred) /\ ~IsNaN(r.ret_1d) IN SelectSeq(t, Ok)

InitPos(t) ==
    [i \in 1..Len(t) |->
        [idx |-> t[i].idx, symbol |-> t[i].symbol, ts |-> t[i].ts, pred |-> t[i].pred,
         ret_1d |-> t[i].ret_1d, pos |-> Zero]]

GroupKeys(t) == SetToSortedSeq({t[i].ts : i \in 1..Len(t)})

(***************************************************************************)
(* Lines 33-43: the per-date selection.                                    *)
(***************************************************************************)
DayRows(t, ts) == LET Is(r) == r.ts = ts IN SelectSeq(t, Is)

(* Variant: the threshold one row too low. *)
ThinDayOffByOne(n) == n < NMin - 1

ThinDay(n) == n < NMin

(* int(np.floor(q * n)): q is a double, n is exact, and their product is    *)
(* rounded to float64 before the floor (0.58 * 50 is 28.999999999999996,    *)
(* floor 28).  The conversion to int raises for a NaN or infinite product.  *)
Product(q, n) == FMul(q, FromInt(n))

FloorMul(q, n) == FFloor(Product(q, n))

(* Variant: the bucket size rounded up instead of down. *)
KShortCeil(q, n) == Max(1, 0 - FFloor(FNeg(Product(q, n))))

(* FloorMul tabulated once for the explored quantiles and day sizes. *)
FloorTable == [q \in QSet |-> [n \in NMin..(NFree + NFill) |-> FloorMul(q, n)]]

FloorProduct(q, n) ==
    IF q \in DOMAIN FloorTable /\ n \in NMin..(NFree + NFill) THEN FloorTable[q][n]
    ELSE FloorMul(q, n)

KShort(q, n) == Max(1, FloorProduct(q, n))

KLong(q, n) == Max(1, FloorProduct(q, n))

ShortWeight(k) == FDiv(MinusOne, FromInt(k))

(* Variant: the long bucket normalised by one name too many. *)
LongWeightOffByOne(k) == FDiv(One, FromInt(k + 1))

LongWeight(k) == FDiv(One, FromInt(k))

RECURSIVE SortedVals(_)
SortedVals(V) ==
    IF V = {} THEN <<>>
    ELSE LET v == CHOOSE x \in V : \A y \in V : ~FLess(y, x)
         IN  <<v>> \o SortedVals({y \in V : ~FEq(y, v)})

RECURSIVE Perms(_)
Perms(S) ==
    IF S = {} THEN {<<>>}
    ELSE UNION {{<<x>> \o p : p \in Perms(S \ {x})} : x \in S}

RECURSIVE Orders(_)
Orders(groups) ==
    IF groups = <<>> THEN {<<>>}
    ELSE {p \o t : p \in Perms(Head(groups)), t \in Orders(Tail(groups))}

(* day.sort_values("pred").index: the default sort kind is numpy's unstable *)
(* quicksort, so rows with equal pred may come out in any relative order;   *)
(* every index that is ascending in pred is a possible outcome.             *)
SortValues(day) ==
    LET vs == SortedVals({day[i].pred : i \in 1..Len(day)})
        groups == [g \in 1..Len(vs) |->
                      {day[i].idx : i \in {j \in 1..Len(day) : FEq(day[j].pred, vs[g])}}]
    IN  Orders(groups)

(* idx[:k] and idx[-k:] for k >= 1: a slice longer than idx is all of idx *)
FirstK(idx, k) == {idx[i] : i \in 1..(IF k <= Len(idx) THEN k ELSE Len(idx))}
LastK(idx, k) == {idx[i] : i \in Max(1, Len(idx) - k + 1)..Len(idx)}

(* Variant: the labels taken as positions (iloc instead of loc). *)
LocSetByPosition(t, labels, w) ==
    [i \in 1..Len(t) |-> IF (i - 1) \in labels THEN [t[i] EXCEPT !.pos = w] ELSE t[i]]

(* df.loc[labels, "pos"] = w : by index label, not by position. *)
LocSet(t, labels, w) ==
    [i \in 1..Len(t) |-> IF t[i].idx \in labels THEN [t[i] EXCEPT !.pos = w] ELSE t[i]]

(* Variant: the long bucket written first, the short bucket second. *)
AssignDayLongFirst(t, idx, q_short, q_long) ==
    LET n == Len(idx)
        k_short == KShort(q_short, n)
        k_long == KLong(q_long, n)
    IN  LocSet(LocSet(t, LastK(idx, k_long), LongWeight(k_long)),
               FirstK(idx, k_short), ShortWeight(k_short))

(* The short bucket is written first, the long bucket second. *)
AssignDay(t, idx, q_short, q_long) ==
    LET n == Len(idx)
        k_short == KShort(q_short, n)
        k_long == KLong(q_long, n)
    IN  LocSet(LocSet(t, FirstK(idx, k_short), ShortWeight(k_short)),
               LastK(idx, k_long), LongWeight(k_long))

DayIndexChoices(day) == IF ThinDay(Len(day)) THEN {<<>>} ELSE SortValues(day)

(* int() of the floor raises ValueError or OverflowError on NaN and on an *)
(* infinity, the values without a significand                            *)
Convertible(q, n) == Product(q, n).m # <<>>

(***************************************************************************)
(* Lines 45-52: previous position per symbol, turnover, cost, pnl_sym.     *)
(***************************************************************************)
(* Variant: shift(1) over the whole frame, without the groupby. *)
PosPrevUngrouped(t, i) == IF i = 1 THEN Zero ELSE t[i - 1].pos

(* Variant: a position is carried over only from the day before. *)
PosPrevAdjacent(t, i) ==
    LET p == PrevOfSymbol(t, i)
    IN  IF p = 0 \/ t[p].ts # t[i].ts - 1 THEN Zero ELSE t[p].pos

PosPrev(t, i) ==
    LET p == PrevOfSymbol(t, i) IN IF p = 0 THEN Zero ELSE t[p].pos

FeeRate(fee_bps) == FDiv(fee_bps, FromInt(10000))

Charged(r, pos_prev, turnover, cost) ==
    [idx |-> r.idx, symbol |-> r.symbol, ts |-> r.ts, pred |-> r.pred,
     ret_1d |-> r.ret_1d, pos |-> r.pos, pos_prev |-> pos_prev,
     turnover |-> turnover, cost |-> cost,
     pnl_sym |-> FSub(FMul(pos_prev, r.ret_1d), cost)]

Turned(r, pos_prev, fee, turnover) == Charged(r, pos_prev, turnover, FMul(fee, turnover))

Booked(r, pos_prev, fee) == Turned(r, pos_prev, fee, FAbs(FSub(r.pos, pos_prev)))

BookRows(t, fee) == [i \in 1..Len(t) |-> Booked(t[i], PosPrev(t, i), fee)]

TurnoverCosts(t, fee_bps) == BookRows(t, FeeRate(fee_bps))

(***************************************************************************)
(* Lines 54-56: daily sum of pnl_sym by ts, ascending, and the equity      *)
(* curve (1 + pnl).cumprod().                                              *)
(***************************************************************************)
(* GroupBy.sum is a compensated (Kahan) summation over the rows of the      *)
(* group in frame order; NaN values are skipped, so a group of NaN alone    *)
(* sums to 0.0.  An infinite value makes the compensation NaN: pandas from  *)
(* 2.1 on resets it to 0 (guard), earlier versions carry it into the next   *)
(* value, and the sum of a group with an infinity that is not its last      *)
(* value is then NaN.                                                       *)
Compensation(c, guard) == IF guard /\ IsNaN(c) THEN Zero ELSE c

KahanNext(sum, y, t, guard) ==
    [sum |-> t, comp |-> Compensation(FSub(FSub(t, sum), y), guard)]

KahanAdd(acc, y, guard) == KahanNext(acc.sum, y, FAdd(acc.sum, y), guard)

KahanStep(acc, val, guard) ==
    IF IsNaN(val) THEN acc ELSE KahanAdd(acc, FSub(val, acc.comp), guard)

(* (acc = acc is true; it has the accumulator evaluated step by step) *)
RECURSIVE KahanFrom(_, _, _, _)
KahanFrom(s, i, acc, guard) ==
    IF i > Len(s) THEN acc
    ELSE IF acc = acc THEN KahanFrom(s, i + 1, KahanStep(acc, s[i], guard), guard)
    ELSE acc

GroupSum(s, guard) == KahanFrom(s, 1, [sum |-> Zero, comp |-> Zero], guard).sum

PnlSymOf(rows) == AsTuple([i \in 1..Len(rows) |-> rows[i].pnl_sym])

DayPnl(t, ts, guard) == GroupSum(PnlSymOf(DayRows(t, ts)), guard)

(* Variant: an equity curve that starts at 1.0 on the first date. *)
RECURSIVE CumProdFromOne(_, _)
CumProdFromOne(s, i) == IF i = 1 THEN One ELSE FMul(CumProdFromOne(s, i - 1), s[i])

(* np.cumprod of the series with its NaN elements replaced by 1.0 *)
RECURSIVE ProdUpTo(_, _)
ProdUpTo(s, i) ==
    IF i = 1 THEN (IF IsNaN(s[1]) THEN One ELSE s[1])
    ELSE FMul(ProdUpTo(s, i - 1), IF IsNaN(s[i]) THEN One ELSE s[i])

(* Series.cumprod skips NaN: the result is NaN where the series is, and the *)
(* product goes on with the other elements.                                 *)
CumProd(s, i) == IF IsNaN(s[i]) THEN NaN ELSE ProdUpTo(s, i)

Compound(ks, pnl, growth) ==
    [i \in 1..Len(ks) |-> [ts |-> ks[i], pnl |-> pnl[i], equity |-> CumProd(growth, i)]]

Growth(ks, pnl) == Compound(ks, pnl, AsTuple([i \in 1..Len(pnl) |-> FAdd(One, pnl[i])]))

DailySums(t, ks, guard) ==
    Growth(ks, AsTuple([i \in 1..Len(ks) |-> DayPnl(t, ks[i], guard)]))

Aggregate(t, guard) == DailySums(t, GroupKeys(t), guard)

(***************************************************************************)
(* Lines 58-75: metrics.                                                   *)
(***************************************************************************)
(* np.maximum.accumulate of the series with its NaN elements replaced by *)
(* -inf                                                                  *)
Greater(c, x) == IF FLess(c, x) THEN x ELSE c

RECURSIVE MaxUpTo(_, _)
MaxUpTo(e, i) ==
    IF i = 0 THEN F64Inf(-1)
    ELSE Greater(MaxUpTo(e, i - 1), IF IsNaN(e[i]) THEN F64Inf(-1) ELSE e[i])

(* Series.cummax skips NaN: NaN where the series is, the running maximum of *)
(* the other elements elsewhere.                                            *)
CumMax(e, i) == IF IsNaN(e[i]) THEN NaN ELSE MaxUpTo(e, i)

(* Series.min() skips NaN; NaN for an empty or all-NaN series. *)
Lesser(least, x) ==
    IF IsNaN(x) THEN least ELSE IF IsNaN(least) \/ FLess(x, least) THEN x ELSE least

RECURSIVE MinUpTo(_, _)
MinUpTo(s, i) == IF i = 0 THEN NaN ELSE Lesser(MinUpTo(s, i - 1), s[i])

MinOf(s) == MinUpTo(s, Len(s))

Drawdown(e) == AsTuple([i \in 1..Len(e) |-> FSub(FDiv(e[i], CumMax(e, i)), One)])

(* The float64 sum of numpy's add.reduce over a contiguous array: a plain   *)
(* loop below 8 elements, 8 interleaved partial sums up to 128 elements,    *)
(* added up as ((r0 + r1) + (r2 + r3)) + ((r4 + r5) + (r6 + r7)) and then   *)
(* the rest one by one, and halves that are multiples of 8 above.           *)
(* (res = res is true; it has the running sum evaluated step by step) *)
RECURSIVE SumLoop(_, _)
SumLoop(res, a) ==
    IF a = <<>> \/ res # res THEN res ELSE SumLoop(FAdd(res, Head(a)), Tail(a))

RECURSIVE TreeSum(_, _, _)
TreeSum(r, lo, hi) ==
    IF lo = hi THEN r[lo]
    ELSE FAdd(TreeSum(r, lo, (lo + hi) \div 2), TreeSum(r, (lo + hi) \div 2 + 1, hi))

(* the start value and the elements the loop adds to it *)
Unrolled(a, full) ==
    IF full = 0 THEN [res |-> Zero, rest |-> a]
    ELSE [res |-> TreeSum([j \in 1..8 |->
                              SumLoop(a[j], [i \in 1..((full \div 8) - 1) |-> a[j + 8 * i]])],
                          1, 8),
          rest |-> SubSeq(a, full + 1, Len(a))]

RECURSIVE PairwiseSum(_)
PairwiseSum(a) ==
    LET n == Len(a)
        half == (n \div 2) - ((n \div 2) % 8)
    IN  IF n <= 128 THEN LET u == Unrolled(a, n - (n % 8)) IN SumLoop(u.res, u.rest)
        ELSE FAdd(PairwiseSum(SubSeq(a, 1, half)), PairwiseSum(SubSeq(a, half + 1, n)))

(* np.mean of the float64 array a; NaN (0.0 / 0) for the empty array *)
NpMean(a) == FDiv(PairwiseSum(a), FromInt(Len(a)))

Square(x) == FMul(x, x)

(* the rounded squares of the rounded deviations of a from mu *)
SquaredDeviations(a, mu) == AsTuple([i \in 1..Len(a) |-> Square(FSub(a[i], mu))])

(* np.var(a, ddof=1) in float64: the deviations from the rounded mean, their *)
(* squares, the sum of the squares and its quotient by n - 1, each rounded. *)
(* The rounded mean of a constant series need not be the constant:          *)
(* (0.1 + 0.1 + 0.1) / 3 is 0.10000000000000002.                            *)
NpVar(a) == FDiv(PairwiseSum(SquaredDeviations(a, NpMean(a))), FromInt(Len(a) - 1))

(* np.sqrt(252) *)
Sqrt252 == Sqrt(FromInt(252))

(* `std and std > 0`: NaN and 0.0 fail the test. *)
Sharpe(mean, std) == IF FLess(Zero, std) THEN FMul(FDiv(mean, std), Sqrt252) ELSE NaN

Ratios(n, mean, std, max_dd, c) ==
    [n_days |-> n,
     mean_daily |-> mean,
     vol_daily |-> std,
     sharpe_252 |-> Sharpe(mean, std),
     max_drawdown |-> max_dd,
     fee_bps |-> c.fee_bps, long_q |-> c.long_q, short_q |-> c.short_q]

(* np.std(pnl, ddof=1) is the square root of the variance *)
MetricsOf(pnl, eq, c) ==
    Ratios(Len(pnl), NpMean(pnl), IF Len(pnl) > 1 THEN Sqrt(NpVar(pnl)) ELSE NaN,
           MinOf(Drawdown(eq)), c)

Metrics(d, c) ==
    MetricsOf(AsTuple([i \in 1..Len(d) |-> d[i].pnl]),
              AsTuple([i \in 1..Len(d) |-> d[i].equity]), c)

NoMetrics == [n_days |-> -1]

(***************************************************************************)
(* The run: one action per step of backtest_rank_ls.  fill_method is the   *)
(* default of pct_change in the installed pandas (the repository pins no   *)
(* version), and nan_guard tells whether the installed pandas resets a NaN *)
(* compensation in GroupBy.sum.                                            *)
(***************************************************************************)
InitFrom(quantiles, fees) ==
    \E nfill \in {0, NFill}, missing \in MissingSets, tie \in BOOLEAN,
       dup \in DupSet \cup {NoDup}, drop \in DropSet \cup {NoDrop},
       quirk \in QuirkSet \cup {NoQuirk}, fill \in {"ffill", "none"}, guard \in BOOLEAN,
       ql \in quantiles, qs \in quantiles, fee \in fees :
        /\ missing = {} \/ (~tie /\ dup = NoDup)
        /\ ~tie \/ dup = NoDup
        /\ drop = NoDrop \/ (nfill = 0 /\ missing = {} /\ ~tie /\ dup = NoDup)
        /\ quirk = NoQuirk
               \/ (nfill = NFill /\ missing = {} /\ ~tie /\ dup = NoDup /\ drop = NoDrop)
        /\ quirk.kind = "nan_close" \/ fill = "ffill"
        /\ quirk.kind = "zero_close" \/ guard
        /\ predsIn = IF drop.tbl = "preds"
                     THEN WithoutColumn(MakePreds(nfill, missing, tie, dup, quirk), drop.col)
                     ELSE MakePreds(nfill, missing, tie, dup, quirk)
        /\ marketIn = IF drop.tbl = "market"
                      THEN WithoutColumn(MakeMarket(nfill, dup, quirk), drop.col)
                      ELSE MakeMarket(nfill, dup, quirk)
        /\ cfg = [long_q |-> ql, short_q |-> qs, fee_bps |-> fee]
        /\ fill_method = fill
        /\ nan_guard = guard
        /\ pc = "dedup"
        /\ preds = <<>>
        /\ m = <<>>
        /\ df = <<>>
        /\ days = <<>>
        /\ daily = <<>>
        /\ metrics = NoMetrics

Init == InitFrom(QSet, {FromInt(0), FromInt(2500)})

(* A KeyError leaves the function without a return value: pc "error". *)
Dedup ==
    /\ pc = "dedup"
    /\ IF HasKeys(predsIn) /\ HasKeys(marketIn)
       THEN /\ preds' = DropDuplicates(SortBySymbolTs(predsIn))
            /\ m' = DropDuplicates(SortBySymbolTs(marketIn))
            /\ pc' = "returns"
       ELSE /\ pc' = "error"
            /\ UNCHANGED <<preds, m>>
    /\ UNCHANGED <<predsIn, marketIn, cfg, fill_method, nan_guard, df, days, daily, metrics>>

Returns ==
    /\ pc = "returns"
    /\ IF HasColumn(m, "close")
       THEN /\ m' = PctChange(m, fill_method)
            /\ pc' = "merge"
       ELSE /\ pc' = "error"
            /\ UNCHANGED m
    /\ UNCHANGED <<predsIn, marketIn, cfg, fill_method, nan_guard, preds, df, days, daily,
                   metrics>>

Join ==
    /\ pc = "merge"
    /\ IF HasColumn(preds, "pred")
       THEN /\ df' = InitPos(DropNa(Merge(preds, m)))
            /\ days' = GroupKeys(df')
            /\ pc' = IF days' = <<>> THEN "costs" ELSE "select"
       ELSE /\ pc' = "error"
            /\ UNCHANGED <<df, days>>
    /\ UNCHANGED <<predsIn, marketIn, cfg, fill_method, nan_guard, preds, m, daily, metrics>>

(* One pass of the loop over the dates.  The conversion of a NaN or        *)
(* infinite q * n to int raises.                                           *)
SelectDay ==
    /\ pc = "select"
    /\ LET day == DayRows(df, Head(days))
       IN  IF ThinDay(Len(day))
                  \/ (Convertible(cfg.short_q, Len(day)) /\ Convertible(cfg.long_q, Len(day)))
           THEN /\ \E idx \in DayIndexChoices(day) :
                       df' = IF idx = <<>> THEN df
                             ELSE AssignDay(df, idx, cfg.short_q, cfg.long_q)
                /\ days' = Tail(days)
                /\ pc' = IF days' = <<>> THEN "costs" ELSE "select"
           ELSE /\ pc' = "error"
                /\ UNCHANGED <<df, days>>
    /\ UNCHANGED <<predsIn, marketIn, cfg, fill_method, nan_guard, preds, m, daily, metrics>>

Costs ==
    /\ pc = "costs"
    /\ df' = TurnoverCosts(df, cfg.fee_bps)
    /\ pc' = "daily"
    /\ UNCHANGED <<predsIn, marketIn, cfg, fill_method, nan_guard, preds, m, days, daily,
                   metrics>>

Daily ==
    /\ pc = "daily"
    /\ daily' = Aggregate(df, nan_guard)
    /\ pc' = "metrics"
    /\ UNCHANGED <<predsIn, marketIn, cfg, fill_method, nan_guard, preds, m, df, days,
                   metrics>>

Summarize ==
    /\ pc = "metrics"
    /\ metrics' = Metrics(daily, cfg)
    /\ pc' = "done"
    /\ UNCHANGED <<predsIn, marketIn, cfg, fill_method, nan_guard, preds, m, df, days, daily>>

Next == Dedup \/ Returns \/ Join \/ SelectDay \/ Costs \/ Daily \/ Summarize

Spec == Init /\ [][Next]_vars

(***************************************************************************)
(* The same runs restricted to the configurations at the two ends of the   *)
(* quantile range, with fees: the properties that recompute the pipeline   *)
(* for every state are checked on these.                                   *)
(***************************************************************************)
InitExtremes == InitFrom({Hundredths[10], Hundredths[100]}, {FromInt(2500)})

SpecExtremes == InitExtremes /\ [][Next]_vars

(***************************************************************************)
(* The aggregation and the metrics (lines 54-75) as a function of the      *)
(* booked frame alone: runs that start at the aggregation with a frame of  *)
(* one booked row per date, reduced to the columns these lines read, whose *)
(* pnl_sym ranges over nine values (losses of 100% and more included) and  *)
(* whose length ranges from 0, the empty joined set, to MaxDays; a frame   *)
(* that starts with 0.1 may hold a second row of 0.2 on its first date.    *)
(***************************************************************************)
RECURSIVE PnlSeries(_)
PnlSeries(n) ==
    IF n = 0 THEN {<<>>}
    ELSE PnlSeries(n - 1) \cup
         {Append(s, x) : s \in {t \in PnlSeries(n - 1) : Len(t) = n - 1},
                         x \in {FromInt(-2), FromInt(-1), Hundredths[-50], Hundredths[-2],
                                Zero, Hundredths[1], Hundredths[10], Hundredths[30],
                                Hundredths[50]}}

BookedFrame(s) == [i \in 1..Len(s) |-> [symbol |-> 1, ts |-> i, pnl_sym |-> s[i]]]

InitSeries ==
    \E s \in PnlSeries(MaxDays), two \in BOOLEAN :
        /\ two => (s # <<>> /\ s[1] = Hundredths[10])
        /\ predsIn = <<>>
        /\ marketIn = <<>>
        /\ cfg = [long_q |-> Hundredths[10], short_q |-> Hundredths[10], fee_bps |-> One]
        /\ fill_method = "ffill"
        /\ nan_guard = TRUE
        /\ pc = "daily"
        /\ preds = <<>>
        /\ m = <<>>
        /\ df = IF two THEN BookedFrame(s) \o <<[symbol |-> 2, ts |-> 1, pnl_sym |-> Hundredths[20]]>> ELSE BookedFrame(s)
        /\ days = <<>>
        /\ daily = <<>>
        /\ metrics = NoMetrics

NextSeries == Daily \/ Summarize

SpecSeries == InitSeries /\ [][NextSeries]_vars

(***************************************************************************)
(* Vocabulary of the properties.                                           *)
(***************************************************************************)
Selected == pc \in {"costs", "done"}
BookedRows == pc \in {"daily", "done"}
Finished == pc = "done"

Processed(ts) == pc # "select" \/ \A i \in 1..Len(days) : days[i] # ts

JoinedDates == {df[i].ts : i \in 1..Len(df)}

DaySize(ts) == Len(DayRows(df, ts))

(* k = max(1, floor(q * n)), the product being the float64 one *)
BucketSize(q, n) == Max(1, FloorProduct(q, n))

NoOverlap(ts) ==
    BucketSize(cfg.short_q, DaySize(ts)) + BucketSize(cfg.long_q, DaySize(ts))
        <= DaySize(ts)

PosOf(t) == AsTuple([i \in 1..Len(t) |-> t[i].pos])

(* Sums of weights are float64 sums, compared up to Tolerance (1e-9). *)
Tolerance == D(1, 1000000000)

FLeq(x, y) == FLess(x, y) \/ FEq(x, y)

Near(x, y) == FLeq(FAbs(FSub(x, y)), Tolerance)

(* Both NaN, or equal numbers. *)
Same(x, y) == (IsNaN(x) /\ IsNaN(y)) \/ FEq(x, y)

(* The sum of a column, added up in frame order; NaN when a term is. *)
SeqSum(s) == SumLoop(Zero, s)

PositivePart(w) == AsTuple([i \in 1..Len(w) |-> IF FLess(Zero, w[i]) THEN w[i] ELSE Zero])

NegativePart(w) == AsTuple([i \in 1..Len(w) |-> IF FLess(w[i], Zero) THEN w[i] ELSE Zero])

PositiveSum(ts) == SeqSum(PositivePart(PosOf(DayRows(df, ts))))

NegativeSum(ts) == SeqSum(NegativePart(PosOf(DayRows(df, ts))))

(* C1 as stated: on every date with n >= 20 rows, for all long_q, short_q   *)
(* in (0,1], the positive weights sum to +1 and the negative ones to -1.    *)
C1_DollarNeutralAlways ==
    Selected =>
        \A ts \in JoinedDates :
            DaySize(ts) >= NMin =>
                Near(PositiveSum(ts), One) /\ Near(NegativeSum(ts), MinusOne)

(* C1 amended: on every date with n >= 20 rows whose buckets do not overlap *)
(* (k_short + k_long <= n), the positive weights sum to +1 and the negative *)
(* weights sum to -1, up to float64 rounding.                               *)
C1_DollarNeutral ==
    Selected =>
        \A ts \in JoinedDates :
            (DaySize(ts) >= NMin /\ NoOverlap(ts)) =>
                Near(PositiveSum(ts), One) /\ Near(NegativeSum(ts), MinusOne)

C1_Witness ==
    /\ pc = "costs"
    /\ \E ts \in JoinedDates :
        /\ DaySize(ts) > NMin
        /\ NoOverlap(ts)
        /\ cfg.short_q # cfg.long_q
        /\ Near(PositiveSum(ts), One)
        /\ \E i \in 1..Len(df) : df[i].ts = ts /\ df[i].pos = LongWeight(7)

(***************************************************************************)
(* C2: the weight a symbol was assigned on the prior day, the day the bar  *)
(* of realized_return(symbol, date) starts: the symbol's previous market   *)
(* date.  A symbol with no joined row on that day was assigned no weight.  *)
(***************************************************************************)
PriorDay(s, d) ==
    LET before == {m[j].ts : j \in {k \in 1..Len(m) : m[k].symbol = s /\ m[k].ts < d}}
    IN  CHOOSE x \in before : \A y \in before : y <= x

WeightAssigned(s, d) ==
    LET hit == {i \in 1..Len(df) : df[i].symbol = s /\ df[i].ts = d}
    IN  IF hit = {} THEN Zero ELSE df[CHOOSE i \in hit : TRUE].pos

HeldThrough(i) == WeightAssigned(df[i].symbol, PriorDay(df[i].symbol, df[i].ts))

BookedAgainst(r, prev_weight) ==
    /\ Same(r.pos_prev, prev_weight)
    /\ Same(r.pnl_sym, FSub(FMul(prev_weight, r.ret_1d), r.cost))

(* C2 as stated: for every joined row, pnl_sym = prev_weight * realized     *)
(* return - cost with prev_weight the weight the symbol was assigned on the *)
(* prior day, also when the symbol misses intermediate dates of the joined  *)
(* set.                                                                     *)
C2_PnlFromPriorDayWeight ==
    BookedRows => \A i \in 1..Len(df) : BookedAgainst(df[i], HeldThrough(i))

(***************************************************************************)
(* C3: the weights of a date computed from that date's rows alone.         *)
(***************************************************************************)
ResetPos(day) == [i \in 1..Len(day) |-> [day[i] EXCEPT !.pos = Zero]]

PureDayWeights(day, c) ==
    IF Len(day) < NMin THEN {[i \in 1..Len(day) |-> Zero]}
    ELSE {PosOf(AssignDay(ResetPos(day), idx, c.short_q, c.long_q)) :
             idx \in SortValues(day)}

(* The frames the body of the loop (lines 34-43) can leave when it is run   *)
(* on the rows of date ts of the frame t: one for each order the sort may   *)
(* return.                                                                  *)
BodyOutcomes(t, ts) ==
    {IF idx = <<>> THEN t ELSE AssignDay(t, idx, cfg.short_q, cfg.long_q) :
        idx \in DayIndexChoices(DayRows(t, ts))}

AgreesOn(t, ts) == PosOf(DayRows(t, ts)) = PosOf(DayRows(df, ts))

(* The frames the body of the loop leaves when it is run over the dates in  *)
(* the order ks, starting from t, among those that give each date the       *)
(* weights it has in df.                                                    *)
RECURSIVE SelectIn(_, _)
SelectIn(t, ks) ==
    IF ks = <<>> THEN {t}
    ELSE UNION {SelectIn(f, Tail(ks)) :
                   f \in {g \in BodyOutcomes(t, Head(ks)) : AgreesOn(g, Head(ks))}}

(* Processing the dates in the order ks gives the weights of the run. *)
SameResultIn(ks) == \E f \in SelectIn(ResetPos(df), ks) : PosOf(f) = PosOf(df)

Reversed(ks) == [i \in 1..Len(ks) |-> ks[Len(ks) + 1 - i]]

Traded(ts) == \E i \in 1..Len(df) : df[i].ts = ts /\ df[i].pos # Zero

(* C3: once a date is processed its weights are an outcome of the policy    *)
(* applied to that date's joined rows and the configuration alone, whatever *)
(* the other dates hold and whichever dates were processed before; a date   *)
(* not yet processed holds only zero weights; and when the loop has ended,  *)
(* running its body over the dates in any other order gives the same        *)
(* weights.                                                                 *)
C3_NoLookahead ==
    /\ pc \in {"select", "costs", "done"} =>
           \A ts \in JoinedDates :
               LET day == DayRows(df, ts)
               IN  IF Processed(ts) THEN PosOf(day) \in PureDayWeights(day, cfg)
                   ELSE \A i \in 1..Len(day) : day[i].pos = Zero
    /\ pc = "costs" => \A ks \in Perms(JoinedDates) : SameResultIn(ks)

(* Two dates carry weights, a third is thin, and the dates taken from the   *)
(* last to the first give the weights of the run.                           *)
C3_Witness ==
    /\ pc = "costs"
    /\ \E a \in JoinedDates, b \in JoinedDates : a < b /\ Traded(a) /\ Traded(b)
    /\ \E ts \in JoinedDates : DaySize(ts) < NMin
    /\ Reversed(GroupKeys(df)) # GroupKeys(df)
    /\ SameResultIn(Reversed(GroupKeys(df)))

(***************************************************************************)
(* C4: the first equity value, and the sign of the equity.                 *)
(***************************************************************************)
(* 2^-1021: a running product below it can round to 0.0 in the next step *)
UnderflowBound == Round(1, <<1>>, -1021, FALSE)

NoTotalLoss(d) == \A i \in 1..Len(d) : ~FLeq(d[i].pnl, MinusOne)

(* The equity of row i is strictly positive; or it is NaN on a date whose   *)
(* daily pnl is NaN; or it is 0.0 after a running product below 2^-1021.    *)
PositiveOrUndefined(d, i) ==
    IF IsNaN(d[i].pnl) THEN IsNaN(d[i].equity)
    ELSE \/ FLess(Zero, d[i].equity)
         \/ /\ i > 1
            /\ d[i].equity = Zero
            /\ \E j \in 1..(i - 1) : FLess(d[j].equity, UnderflowBound)

(* A daily pnl of -1 + 2^-53, the double next above -1. *)
NearTotalLoss == FAdd(MinusOne, Round(1, <<1>>, -53, FALSE))

(* Twenty-one dates of that pnl, none of them <= -1: the cumulative product *)
(* is 2^-1060 after twenty dates and 0.0 after the next.                    *)
Underflows ==
    LET growth == AsTuple([i \in 1..21 |-> FAdd(One, NearTotalLoss)])
    IN  /\ ~FLeq(NearTotalLoss, MinusOne)
        /\ CumProd(growth, 20) = Round(1, <<1>>, -1060, FALSE)
        /\ CumProd(growth, 21) = Zero

Holding(day, w) == {i \in 1..Len(day) : day[i].pos = w}

Lowest(day, S) ==
    \A i \in S : \A j \in (1..Len(day)) \ S : FLeq(day[i].pred, day[j].pred)

Highest(day, S) ==
    \A i \in S : \A j \in (1..Len(day)) \ S : FLeq(day[j].pred, day[i].pred)

BucketsOf(day, ks, kl, shorts, longs) ==
    /\ Cardinality(shorts) = ks
    /\ Lowest(day, shorts)
    /\ Cardinality(longs) = kl
    /\ Highest(day, longs)
    /\ \A i \in (1..Len(day)) \ (shorts \cup longs) : day[i].pos = Zero
    /\ ks + kl <= Len(day) =>
         Cardinality({i \in 1..Len(day) : day[i].pos # Zero}) = ks + kl

BucketsSized(day, ks, kl) ==
    BucketsOf(day, ks, kl, Holding(day, FDiv(MinusOne, FromInt(ks))),
              Holding(day, FDiv(One, FromInt(kl))))

BucketsAsStated(day) ==
    BucketsSized(day, BucketSize(cfg.short_q, Len(day)), BucketSize(cfg.long_q, Len(day)))

(* C5 as stated: on every date with n >= 20 rows the k_short lowest-score   *)
(* symbols hold -1/k_short, the k_long highest-score symbols +1/k_long, the *)
(* others 0.                                                                *)
C5_BucketsAlways ==
    Selected =>
        \A ts \in JoinedDates : DaySize(ts) >= NMin => BucketsAsStated(DayRows(df, ts))

(* C5 amended: on every date with n >= 20 rows and k_short + k_long <= n,   *)
(* k_short symbols of lowest score hold -1/k_short, k_long symbols of       *)
(* highest score hold +1/k_long, every other symbol holds 0, and exactly    *)
(* k_short + k_long symbols hold a nonzero weight.                          *)
C5_Buckets ==
    Selected =>
        \A ts \in JoinedDates :
            (DaySize(ts) >= NMin /\ NoOverlap(ts)) => BucketsAsStated(DayRows(df, ts))

C5_Witness ==
    /\ pc = "costs"
    /\ \E ts \in JoinedDates :
        /\ DaySize(ts) > NMin
        /\ NoOverlap(ts)
        /\ BucketSize(cfg.short_q, DaySize(ts)) # BucketSize(cfg.long_q, DaySize(ts))
        /\ ~FEq(FromInt(FloorProduct(cfg.short_q, DaySize(ts))),
                Product(cfg.short_q, DaySize(ts)))
        /\ \E i \in 1..Len(df) : df[i].ts = ts /\ FLess(df[i].pos, Zero)

(* C6: on every date with fewer than 20 joined rows every weight is 0, and  *)
(* the run goes on to its end with that date in the daily series.           *)
C6_ThinDayFlat ==
    /\ pc \in {"select", "costs", "daily", "metrics", "done"} =>
         \A i \in 1..Len(df) : DaySize(df[i].ts) < 20 => df[i].pos = Zero
    /\ Finished => {daily[i].ts : i \in 1..Len(daily)} = JoinedDates

C6_Witness ==
    /\ Finished
    /\ metrics.n_days = Len(daily)
    /\ \E a \in JoinedDates, b \in JoinedDates :
        /\ a < b
        /\ DaySize(a) >= NMin
        /\ DaySize(b) = NMin - 1
        /\ \E i \in 1..Len(df) : df[i].ts = a /\ df[i].pos # Zero
        /\ \E i \in 1..Len(daily) : daily[i].ts = b

(***************************************************************************)
(* C7: Scenario 1, three symbols A, B, C on one date.                      *)
(***************************************************************************)
ScenarioOne(day) ==
    /\ Len(day) = 3
    /\ cfg.long_q = Hundredths[34]
    /\ cfg.short_q = Hundredths[34]
    /\ day[1].pred = Tenths[9]
    /\ day[2].pred = Tenths[1]
    /\ day[3].pred = Tenths[-5]

(* C7 as stated: the minimum cross-section size can be lowered, so that     *)
(* scores A 0.9, B 0.1, C -0.5 with long_q = short_q = 0.34 give the        *)
(* weights A = +1, B = 0, C = -1.                                           *)
C7_ScenarioOneWeights ==
    Selected =>
        \A ts \in JoinedDates :
            ScenarioOne(DayRows(df, ts)) =>
                PosOf(DayRows(df, ts)) = <<One, Zero, MinusOne>>

(***************************************************************************)
(* C8: the previous weight of a row, found by symbol and date.             *)
(***************************************************************************)
EarlierRows(i) ==
    {j \in 1..Len(df) : df[j].symbol = df[i].symbol /\ df[j].ts < df[i].ts}

PrevWeight(i) ==
    LET earlier == EarlierRows(i)
    IN  IF earlier = {} THEN Zero
        ELSE df[CHOOSE j \in earlier : \A k \in earlier : df[k].ts <= df[j].ts].pos

TurnoverAgainst(r, prev_weight, fee, first) ==
    /\ r.pos_prev = prev_weight
    /\ r.turnover = FAbs(FSub(r.pos, prev_weight))
    /\ FLeq(Zero, r.turnover)
    /\ r.cost = FMul(fee, r.turnover)
    /\ first => r.turnover = FAbs(r.pos)

TurnoverRows(fee) ==
    \A i \in 1..Len(df) : TurnoverAgainst(df[i], PrevWeight(i), fee, EarlierRows(i) = {})

(* C8: for every joined row, turnover = |weight - prev_weight| >= 0 with    *)
(* prev_weight the weight of the same symbol's previous joined row, cost =  *)
(* (fee_bps / 10000) * turnover, and on a symbol's first joined row         *)
(* prev_weight is 0, so turnover = |weight|.                                *)
C8_TurnoverAndCost ==
    BookedRows => TurnoverRows(FDiv(cfg.fee_bps, FromInt(10000)))

C8_Witness ==
    /\ pc = "daily"
    /\ ~FEq(cfg.fee_bps, Zero)
    /\ \E i \in 2..Len(df) :
        /\ EarlierRows(i) = {}
        /\ df[i].pos # Zero
        /\ df[i - 1].pos # Zero
        /\ df[i].cost # Zero
    /\ \E i \in 1..Len(df) :
        /\ EarlierRows(i) # {}
        /\ df[i].pos_prev # Zero
        /\ df[i].turnover # Zero
        /\ df[i].turnover # FAbs(df[i].pos)

(***************************************************************************)
(* C9: the row of a key that is last in input order.                       *)
(***************************************************************************)
LastOccurrence(t, r) ==
    LET hit == {i \in 1..Len(t) : SameKey(t[i], r)}
    IN  t[CHOOSE i \in hit : \A j \in hit : j <= i]

OneRowPerKey(t) ==
    \A i \in 1..Len(t) : \A j \in 1..Len(t) : SameKey(t[i], t[j]) => i = j

(* C9 as stated: of several input rows with the same (symbol, date) exactly *)
(* one is used, the last in input order, in predictions and in market.      *)
C9_KeepsLastOccurrence ==
    pc # "dedup" =>
        /\ OneRowPerKey(preds)
        /\ OneRowPerKey(m)
        /\ \A i \in 1..Len(preds) : preds[i].pred = LastOccurrence(predsIn, preds[i]).pred
        /\ \A i \in 1..Len(m) : m[i].close = LastOccurrence(marketIn, m[i]).close

(***************************************************************************)
(* C10: the index of a date under the secondary order by symbol.           *)
(***************************************************************************)
RECURSIVE BySymbolWithin(_, _)
BySymbolWithin(day, I) ==
    IF I = {} THEN <<>>
    ELSE LET i == CHOOSE a \in I :
                    \A b \in I :
                        \/ FLess(day[a].pred, day[b].pred)
                        \/ (FEq(day[a].pred, day[b].pred) /\ day[a].symbol <= day[b].symbol)
         IN  <<day[i].idx>> \o BySymbolWithin(day, I \ {i})

(* C10 as stated: among equal scores the bucket membership follows a fixed  *)
(* secondary order, the symbol identifier, so the weights of a date are     *)
(* determined by its rows.                                                  *)
C10_TiesBySymbol ==
    Selected =>
        \A ts \in JoinedDates :
            LET day == DayRows(df, ts)
            IN  DaySize(ts) >= NMin =>
                    PosOf(day) =
                        PosOf(AssignDay(ResetPos(day), BySymbolWithin(day, 1..Len(day)),
                                        cfg.short_q, cfg.long_q))

(***************************************************************************)
(* C11: the joined set against the input tables.                           *)
(***************************************************************************)
MarketDates(s) == {m[j].ts : j \in {k \in 1..Len(m) : m[k].symbol = s}}

CloseAt(s, d) == m[CHOOSE j \in 1..Len(m) : m[j].symbol = s /\ m[j].ts = d].close

RealizedReturn(s, d) ==
    LET before == {x \in MarketDates(s) : x < d}
    IN  IF d \notin MarketDates(s) \/ before = {} THEN NaN
        ELSE ChangeOf(CloseAt(s, d),
                      CloseAt(s, CHOOSE x \in before : \A y \in before : y <= x))

InTable(t, r) == \E j \in 1..Len(t) : SameKey(t[j], r)

(* C11 as stated: every joined row has a defined score and a defined       *)
(* realized return (a finite number), the close-to-close return over the    *)
(* symbol's previous market date; no row lies on its symbol's first market  *)
(* date; the keys (symbol, date) are unique; and every row has its key in   *)
(* both input tables, with a score that the predictions give for that key.  *)
C11_JoinedSet ==
    Selected =>
        /\ OneRowPerKey(df)
        /\ \A i \in 1..Len(df) :
            /\ ~IsNaN(df[i].pred)
            /\ ~IsNaN(df[i].ret_1d)
            /\ ~IsInf(df[i].ret_1d)
            /\ df[i].ret_1d = RealizedReturn(df[i].symbol, df[i].ts)
            /\ \E d \in MarketDates(df[i].symbol) : d < df[i].ts
            /\ InTable(marketIn, df[i])
            /\ \E j \in 1..Len(predsIn) :
                   SameKey(predsIn[j], df[i]) /\ predsIn[j].pred = df[i].pred

(***************************************************************************)
(* C12: the daily series against the booked rows.                          *)
(***************************************************************************)
(* the sum of pnl_sym over the rows of a date, NaN when a term is *)
SumPnlSym(ts) == SeqSum(PnlSymOf(DayRows(df, ts)))

SeriesDates == {daily[i].ts : i \in 1..Len(daily)}

(* Both NaN, the same value, or numbers that differ by rounding only. *)
Alike(x, y) == (IsNaN(x) /\ IsNaN(y)) \/ x = y \/ Near(x, y)

(* C12 as stated: the daily series has one row per date of the joined set   *)
(* and no other, in strictly ascending date order; the pnl of a date is the *)
(* sum of pnl_sym over that date's joined rows (not a number when a term is *)
(* not); and n_days is the number of rows.                                  *)
C12_DailySeries ==
    Finished =>
        /\ SeriesDates = JoinedDates
        /\ Len(daily) = Cardinality(JoinedDates)
        /\ \A i \in 1..(Len(daily) - 1) : daily[i].ts < daily[i + 1].ts
        /\ \A i \in 1..Len(daily) : Alike(daily[i].pnl, SumPnlSym(daily[i].ts))
        /\ metrics.n_days = Len(daily)

(***************************************************************************)
(* C13: compounding of the equity curve.                                   *)
(***************************************************************************)
PnlOf(d) == [i \in 1..Len(d) |-> d[i].pnl]

ScenarioThree == PnlOf(daily) = <<Hundredths[1], Hundredths[-2]>>

(* C13 as stated: from the second row on, the equity of a row is the equity *)
(* of the row before times (1 + pnl), NaN when a factor is NaN; and the pnl *)
(* series [0.01, -0.02] gives the equity [1.01, 0.9898] and max_drawdown    *)
(* -0.02 (up to float64 rounding).                                          *)
C13_Compounding ==
    Finished =>
        /\ \A i \in 2..Len(daily) :
               Same(daily[i].equity,
                    FMul(daily[i - 1].equity, FAdd(One, daily[i].pnl)))
        /\ ScenarioThree =>
               /\ Near(daily[1].equity, D(101, 100))
               /\ Near(daily[2].equity, D(9898, 10000))
               /\ Near(metrics.max_drawdown, Hundredths[-2])

(***************************************************************************)
(* C14: sign of the maximum drawdown.                                      *)
(***************************************************************************)
NonDecreasing(d) ==
    \A i \in 1..(Len(d) - 1) : ~FLess(d[i + 1].equity, d[i].equity)

(* C14 as stated: for every non-empty series, also one whose equity is zero *)
(* or negative, max_drawdown is a number <= 0, and it is 0 if and only if   *)
(* the equity never decreases.                                              *)
C14_DrawdownSign ==
    (Finished /\ daily # <<>>) =>
        /\ ~IsNaN(metrics.max_drawdown)
        /\ FLeq(metrics.max_drawdown, Zero)
        /\ FEq(metrics.max_drawdown, Zero) <=> NonDecreasing(daily)

(***************************************************************************)
(* C15: which metrics are NaN.                                             *)
(***************************************************************************)
(* C15 as stated: the run ends normally; vol_daily is NaN exactly when the  *)
(* series has fewer than 2 rows; sharpe_252 is NaN exactly when vol_daily   *)
(* is NaN or 0; and max_drawdown is NaN exactly when the series is empty.   *)
C15_UndefinedMetrics ==
    Finished =>
        /\ metrics.n_days = Len(daily)
        /\ IsNaN(metrics.vol_daily) <=> Len(daily) < 2
        /\ IsNaN(metrics.sharpe_252) <=>
               (IsNaN(metrics.vol_daily) \/ FEq(metrics.vol_daily, Zero))
        /\ IsNaN(metrics.max_drawdown) <=> daily = <<>>

(***************************************************************************)
(* C17: a required column is absent from an input table.                   *)
(***************************************************************************)
Lacks(t, cs) == t # <<>> /\ ~(cs \subseteq DOMAIN t[1])

MissingColumn ==
    \/ Lacks(predsIn, {"symbol", "ts", "pred"})
    \/ Lacks(marketIn, {"symbol", "ts", "close"})

(* C17: when a required column is absent from either input, the step that   *)
(* reads it ends the run with an error, so the run never passes that step   *)
(* and the daily series and the metrics are never set; an error occurs only *)
(* when a column is absent; and no step ever changes the input tables.      *)
StoppedBeforeOutput ==
    MissingColumn =>
        /\ pc \in {"dedup", "returns", "merge", "error"}
        /\ (Lacks(predsIn, {"symbol", "ts"}) \/ Lacks(marketIn, {"symbol", "ts"}))
               => pc \in {"dedup", "error"}
        /\ Lacks(marketIn, {"close"}) => pc \in {"dedup", "returns", "error"}
        /\ daily = <<>>
        /\ metrics = NoMetrics

C17_InputShapeError ==
    [][/\ predsIn' = predsIn
       /\ marketIn' = marketIn
       /\ StoppedBeforeOutput'
       /\ pc' = "error" <=>
              \/ pc = "dedup" /\ (Lacks(predsIn, {"symbol", "ts"})
                                    \/ Lacks(marketIn, {"symbol", "ts"}))
              \/ pc = "returns" /\ Lacks(marketIn, {"close"})
              \/ pc = "merge" /\ Lacks(predsIn, {"pred"})]_vars

C17_Witness ==
    /\ pc = "error"
    /\ Lacks(predsIn, {"pred"})
    /\ preds # <<>>
    /\ m # <<>>
    /\ \E i \in 1..Len(m) : ~IsNaN(m[i].ret_1d)

(***************************************************************************)
(* C16: the sign policy.                                                   *)
(***************************************************************************)
Sign(x) == IF FLess(x, Zero) THEN MinusOne ELSE IF FLess(Zero, x) THEN One ELSE Zero

(* C16 as stated: the configuration selects between two policies, and       *)
(* under the sign policy the weight of every joined row is sign(score),     *)
(* one of -1, 0, +1.                                                        *)
C16_SignPolicy ==
    Selected =>
        /\ "policy" \in DOMAIN cfg
        /\ cfg.policy = "sign" =>
               \A i \in 1..Len(df) : df[i].pos = Sign(df[i].pred)

(***************************************************************************)
(* C18: overlapping buckets.                                               *)
(***************************************************************************)
Negative(w) == {i \in 1..Len(w) : FLess(w[i], Zero)}

OverlapOf(day, w, ks, kl, kept) ==
    /\ Cardinality(Holding(day, FDiv(One, FromInt(kl)))) = kl
    /\ Highest(day, Holding(day, FDiv(One, FromInt(kl))))
    /\ Cardinality(Negative(w)) = kept
    /\ \A i \in Negative(w) : w[i] = FDiv(MinusOne, FromInt(ks))
    /\ Lowest(day, Negative(w))
    /\ \A i \in 1..Len(w) : w[i] # Zero
    /\ Near(SeqSum(PositivePart(w)), One)
    /\ Near(SeqSum(NegativePart(w)), FDiv(FromInt(0 - kept), FromInt(ks)))
    /\ FLess(MinusOne, FDiv(FromInt(0 - kept), FromInt(ks)))

OverlapSized(day, ks, kl) ==
    OverlapOf(day, AsTuple(PosOf(day)), ks, kl, Max(0, Len(day) - kl))

OverlapAsStated(day) ==
    OverlapSized(day, BucketSize(cfg.short_q, Len(day)), BucketSize(cfg.long_q, Len(day)))

(* C18: on every date with n >= 20 rows and k_short + k_long > n, the       *)
(* k_long highest rows hold +1/k_long (the rows of both buckets included),  *)
(* the positive weights sum to +1, exactly max(0, n - k_long) rows, the     *)
(* lowest, hold -1/k_short, and the negative weights sum to                 *)
(* -max(0, n - k_long)/k_short, which is greater than -1 (sums up to        *)
(* float64 rounding).                                                       *)
C18_Overlap ==
    Selected =>
        \A ts \in JoinedDates :
            (DaySize(ts) >= NMin /\ ~NoOverlap(ts)) => OverlapAsStated(DayRows(df, ts))

C18_Witness ==
    /\ pc = "costs"
    /\ \E ts \in JoinedDates :
        /\ DaySize(ts) > NMin
        /\ ~NoOverlap(ts)
        /\ BucketSize(cfg.long_q, DaySize(ts)) < DaySize(ts)
        /\ FLess(NegativeSum(ts), Zero)
        /\ ~Near(NegativeSum(ts), MinusOne)

(***************************************************************************)
(* C19: the previous weight across dates the symbol is absent from.        *)
(***************************************************************************)
LatestEarlier(i) ==
    LET earlier == EarlierRows(i)
    IN  CHOOSE j \in earlier : \A k \in earlier : df[k].ts <= df[j].ts

AfterGap(i) == EarlierRows(i) # {} /\ df[LatestEarlier(i)].ts < df[i].ts - 1

PosPrevOf(rows) == AsTuple([i \in 1..Len(rows) |-> rows[i].pos_prev])

PositivePrevSum(ts) == SeqSum(PositivePart(PosPrevOf(DayRows(df, ts))))

(* the rows of a date, picked by their date from the whole frame *)
RowsDated(ts) == SetToSortedSeq({j \in 1..Len(df) : df[j].ts = ts})

(* the sum of the pnl_sym that are numbers over the rows of a date, as the  *)
(* group sum adds them                                                      *)
SumOfNumbers(rows, guard) ==
    GroupSum(AsTuple([k \in 1..Len(rows) |-> df[rows[k]].pnl_sym]), guard)

BookedAgainstLatest(r, prev_weight, fee) ==
    /\ r.pos_prev = prev_weight
    /\ r.cost = FMul(fee, FAbs(FSub(r.pos, r.pos_prev)))
    /\ r.pnl_sym = FSub(FMul(r.pos_prev, r.ret_1d), r.cost)

BookedRowsAgainstLatest(fee) ==
    \A i \in 1..Len(df) :
        BookedAgainstLatest(df[i],
                            IF EarlierRows(i) = {} THEN Zero ELSE df[LatestEarlier(i)].pos,
                            fee)

(* C19: the previous weight of a joined row is the weight of the symbol's   *)
(* latest earlier joined row, also when dates lie between the two, and 0    *)
(* when there is none; turnover, cost and pnl_sym are booked against it;    *)
(* and the pnl of a date is made of the pnl_sym (those that are numbers) of *)
(* the symbols joined on that date and of no other row, so a symbol that    *)
(* left with a nonzero weight is charged nothing until it is back.          *)
C19_PrevWeightAcrossGaps ==
    Finished =>
        /\ BookedRowsAgainstLatest(FDiv(cfg.fee_bps, FromInt(10000)))
        /\ \A k \in 1..Len(daily) :
               daily[k].pnl = SumOfNumbers(RowsDated(daily[k].ts), nan_guard)

C19_Witness ==
    /\ Finished
    /\ ~FEq(cfg.fee_bps, Zero)
    /\ \E i \in 1..Len(df) :
        /\ AfterGap(i)
        /\ df[i].pos_prev # Zero
        /\ df[LatestEarlier(i)].cost # Zero
    /\ \E ts \in JoinedDates : FLess(FAdd(One, Tolerance), PositivePrevSum(ts))

(***************************************************************************)
(* C20: the run on the inputs cut off after a date.                        *)
(***************************************************************************)
Upto(t, d) == LET Is(r) == r.ts <= d IN SelectSeq(t, Is)

AlterScores(t, d) ==
    [i \in 1..Len(t) |-> IF t[i].ts = d THEN [t[i] EXCEPT !.pred = FNeg(t[i].pred)] ELSE t[i]]

(* The joined rows of the inputs cut off after d; with alter, the scores of *)
(* date d are replaced by other defined scores.                             *)
JoinedUpto(d, alter) ==
    LET p == IF alter THEN AlterScores(Upto(predsIn, d), d) ELSE Upto(predsIn, d)
    IN  InitPos(DropNa(Merge(DropDuplicates(SortBySymbolTs(p)),
                             PctChange(DropDuplicates(SortBySymbolTs(Upto(marketIn, d))),
                                       fill_method))))

(* The weights of the run put on the rows t, those of date skip left at 0. *)
WeightsFrom(t, skip) ==
    [i \in 1..Len(t) |->
        [t[i] EXCEPT !.pos = IF t[i].ts = skip THEN Zero
                              ELSE WeightAssigned(t[i].symbol, t[i].ts)]]

ReturnTerms(t, d) ==
    LET rows == DayRows(t, d)
    IN  [i \in 1..Len(rows) |->
            <<rows[i].symbol, FMul(rows[i].pos_prev, rows[i].ret_1d)>>]

PrefixOf(j, ks, d) ==
    /\ \A k \in 1..Len(ks) :
           PosOf(DayRows(j, ks[k])) \in PureDayWeights(DayRows(j, ks[k]), cfg)
    /\ Aggregate(AsTuple(TurnoverCosts(j, cfg.fee_bps)), nan_guard)
           = LET Is(r) == r.ts <= d IN SelectSeq(daily, Is)
    /\ ReturnTerms(TurnoverCosts(WeightsFrom(JoinedUpto(d, TRUE), d), cfg.fee_bps), d)
           = ReturnTerms(df, d)

PrefixFrom(j, d) == PrefixOf(j, GroupKeys(j), d)

PrefixAsStated(d) == PrefixFrom(AsTuple(WeightsFrom(JoinedUpto(d, FALSE), 0)), d)

(* C20: for every date d, the rows of the daily series up to d are the      *)
(* daily series of the run on the inputs without the rows dated after d     *)
(* (with weights the policy may assign from those rows), and the return     *)
(* terms prev_weight * realized_return of date d stay the same when the     *)
(* scores of date d are replaced and the joined set keeps its rows.         *)
C20_PrefixIndependence ==
    Finished => \A d \in 1..NDates : PrefixAsStated(d)

C20_Witness ==
    /\ Finished
    /\ Len(daily) >= 3
    /\ Len(predsIn) > Len(preds)
    /\ \E i \in 1..Len(df) :
        /\ df[i].ts < NDates
        /\ ~IsZero(FMul(df[i].pos_prev, df[i].ret_1d))
        /\ df[i].cost # Zero
        /\ df[i].pos # df[i].pos_prev

====
